---- MODULE Spec2Model ----
(***************************************************************************)
(* Model of the Next.js / Auth.js / Prisma authentication glue:            *)
(*   - middleware.ts        the Edge Gate (callback and config.matcher)    *)
(*   - lib/auth.ts          Credentials authorize, jwt/session callbacks   *)
(*   - lib/authcontrol.ts   doCredentialLogin, doSocialLogin, doSignOut    *)
(*   - api/auth/register    POST: hash, existence check, insert            *)
(* Strings of the program are TLA+ strings; JavaScript null is the value    *)
(* Null and an absent field (undefined) is the value Undefined.            *)
(***************************************************************************)
EXTENDS Integers, Sequences, FiniteSets, TLC

VARIABLES users, accounts, reg, oauth, reading, token, session, signedInAs, last

vars == <<users, accounts, reg, oauth, reading, token, session, signedInAs,
          last>>

\* ------------------------------------------------------------------ bounds

\* Rows the users table may hold before further inserts are cut off.
MaxUsers == 2

\* Redirects a client follows in a row before it gives up.
MaxHops == 2

\* JavaScript null; also the NULL of a nullable column.
Null == "<null>"

\* JavaScript undefined: a field the object does not have.
Undefined == "<undefined>"

\* v == null in JavaScript: null or undefined.
Nullish(v) == v \in {Null, Undefined}

Emails == {"a@x.io", "b@x.io"}
\* As many characters as bcrypt reads of its data.
Filler == "xxxxxxxxxxxxxxxxxxxxxxxxxxxxxxxxxxxxxxxxxxxxxxxxxxxxxxxxxxxxxxxxxxxxxxxx"

\* The passwords users register with: a short one and a long one.
RegisteredPasswords == {"pw1", Filler \o "A"}

\* The passwords submitted at sign-in: those, and one that differs from the
\* long one only after the filler.
Passwords == RegisteredPasswords \cup {Filler \o "B"}
Names == {"Ann"}
Salts == {"s1"}
Clients == {"c1"}
Reqs == {"r1", "r2"}
Providers == {"github", "google"}

\* Request paths the gate is asked about.
Paths ==
    { "/", "/signin", "/signup", "/login", "/sign-up", "/signin/",
      "/dashboard", "/dashboard/settings", "/dashboardx", "/dashboard/report.pdf",
      "/api/auth/session", "/api/auth/register", "/api/authx", "/api/users",
      "/_next/static", "/logo.png", "/about" }

\* ------------------------------------------------------------ string helpers

\* String.prototype.startsWith
StartsWith(s, prefix) ==
    /\ Len(s) >= Len(prefix)
    /\ SubSeq(s, 1, Len(prefix)) = prefix

CharAt(s, i) == SubSeq(s, i, i)

\* The regular expression class \w
WordChars ==
    { "a", "b", "c", "d", "e", "f", "g", "h", "i", "j", "k", "l", "m",
      "n", "o", "p", "q", "r", "s", "t", "u", "v", "w", "x", "y", "z",
      "A", "B", "C", "D", "E", "F", "G", "H", "I", "J", "K", "L", "M",
      "N", "O", "P", "Q", "R", "S", "T", "U", "V", "W", "X", "Y", "Z",
      "0", "1", "2", "3", "4", "5", "6", "7", "8", "9", "_" }

\* ---------------------------------------------------------------- Edge Gate

\* The regular expression .+\.[\w]+$ matched from the start of s: at least one
\* character, a dot, then one or more word characters up to the end.
HasFileExtension(s) ==
    \E i \in 2..(Len(s) - 1) :
        /\ CharAt(s, i) = "."
        /\ \A j \in (i + 1)..Len(s) : CharAt(s, j) \in WordChars

\* config.matcher: the paths on which the framework invokes the middleware.
\*   "/((?!.+\\.[\\w]+$|_next).*)", "/", "/(api|trpc)(.*)"
matcher(pathname) ==
    \/ /\ StartsWith(pathname, "/")
       /\ LET rest == SubSeq(pathname, 2, Len(pathname))
          IN  ~(HasFileExtension(rest) \/ StartsWith(rest, "_next"))
    \/ pathname = "/"
    \/ StartsWith(pathname, "/api")
    \/ StartsWith(pathname, "/trpc")

isApiAuthRoute(pathname) == StartsWith(pathname, "/api/auth")

isPublicRoute(pathname) == pathname \in {"/signin", "/signup"}

isProtectedRoute(pathname) == StartsWith(pathname, "/dashboard")

PassThrough == [action |-> "next", location |-> Null]

Redirect(target) == [action |-> "redirect", location |-> target]

\* The callback with the public-route branch never redirecting.
middleware_publicPasses(pathname, isLoggedIn) ==
    IF isApiAuthRoute(pathname) THEN PassThrough
    ELSE IF isPublicRoute(pathname) THEN PassThrough
    ELSE IF isProtectedRoute(pathname) /\ ~isLoggedIn THEN Redirect("/signin")
    ELSE PassThrough

\* The callback with the two redirect targets exchanged.
middleware_swappedTargets(pathname, isLoggedIn) ==
    IF isApiAuthRoute(pathname) THEN PassThrough
    ELSE IF isPublicRoute(pathname)
         THEN IF isLoggedIn THEN Redirect("/signin") ELSE PassThrough
    ELSE IF isProtectedRoute(pathname) /\ ~isLoggedIn THEN Redirect("/dashboard")
    ELSE PassThrough

\* The callback without the auth-API early return, protecting every path that
\* is not public.
middleware_protectByDefault(pathname, isLoggedIn) ==
    IF isPublicRoute(pathname)
    THEN IF isLoggedIn THEN Redirect("/dashboard") ELSE PassThrough
    ELSE IF ~isLoggedIn THEN Redirect("/signin")
    ELSE PassThrough

\* The callback given to auth(): the response for (nextUrl.pathname, !!req.auth).
middleware(pathname, isLoggedIn) ==
    IF isApiAuthRoute(pathname) THEN PassThrough
    ELSE IF isPublicRoute(pathname)
         THEN IF isLoggedIn THEN Redirect("/dashboard") ELSE PassThrough
    ELSE IF isProtectedRoute(pathname) /\ ~isLoggedIn THEN Redirect("/signin")
    ELSE PassThrough

\* What a request meets at the edge: the callback when the matcher selects the
\* path, and otherwise nothing (the request goes on to the route).
EdgeGate(pathname, isLoggedIn) ==
    IF matcher(pathname)
    THEN [invoked |-> TRUE, response |-> middleware(pathname, isLoggedIn)]
    ELSE [invoked |-> FALSE, response |-> PassThrough]

\* ------------------------------------------------------- values and results

\* JavaScript null where an object is expected (a row, a token, a session).
NullObj == [null |-> TRUE]

\* The outcome of a call that may throw.
Return(v) == [threw |-> FALSE, value |-> v, error |-> Null]

Throw(e) == [threw |-> TRUE, value |-> NullObj, error |-> e]

\* JavaScript truthiness of a string-or-null field.
Truthy(v) == ~Nullish(v) /\ v # ""

\* --------------------------------------------------------------- the store

\* What a nullable column holds for a field of the data object: an undefined
\* field is left out of the insert and the column is NULL.
Column(v) == IF v = Undefined THEN Null ELSE v

\* model User { id @default(cuid()), name?, email? @unique, ..., password? }
UserRow(id, name, email, password) ==
    [id |-> id, name |-> Column(name), email |-> Column(email),
     password |-> Column(password)]

\* @default(cuid()): an identifier no earlier row has (rows are never deleted).
cuid(store) == "u" \o ToString(Len(store) + 1)

\* The first row, in table order, whose email is the given one.
RowByEmail(store, email) ==
    IF \E i \in 1..Len(store) : store[i].email = email
    THEN store[CHOOSE i \in 1..Len(store) :
                   /\ store[i].email = email
                   /\ \A j \in 1..(i - 1) : store[j].email # email]
    ELSE NullObj

\* prisma.user.findUnique({ where: { email } }): a unique lookup needs its key;
\* an undefined or null key is a validation error.
findUnique(store, email, dbUp) ==
    IF ~dbUp THEN Throw("PrismaClientInitializationError")
    ELSE IF Nullish(email) THEN Throw("PrismaClientValidationError")
    ELSE Return(RowByEmail(store, email))

\* An existence check on a field no row matches.
findFirst_noMatch(store, email, dbUp) ==
    IF ~dbUp THEN Throw("PrismaClientInitializationError")
    ELSE Return(NullObj)

\* prisma.user.findFirst({ where: { email } }): an undefined filter field is
\* left out of the query, which then matches the first row of the table; a
\* null one is the filter email IS NULL.
findFirst(store, email, dbUp) ==
    IF ~dbUp THEN Throw("PrismaClientInitializationError")
    ELSE IF email = Undefined
         THEN Return(IF Len(store) > 0 THEN store[1] ELSE NullObj)
    ELSE Return(RowByEmail(store, email))

\* An insert that overwrites the row that already has the email (an upsert).
create_upsert(store, data, dbUp) ==
    IF ~dbUp THEN Throw("PrismaClientInitializationError")
    ELSE IF ~Nullish(data.email) /\ RowByEmail(store, data.email) # NullObj
         THEN Return([i \in 1..Len(store) |->
                        IF store[i].email = data.email
                        THEN [store[i] EXCEPT !.name = Column(data.name),
                                              !.password = Column(data.password)]
                        ELSE store[i]])
    ELSE Return(Append(store,
                 UserRow(cuid(store), data.name, data.email, data.password)))

\* An insert into a table whose email column has no unique index.
create_noUniqueIndex(store, data, dbUp) ==
    IF ~dbUp THEN Throw("PrismaClientInitializationError")
    ELSE Return(Append(store,
                 UserRow(cuid(store), data.name, data.email, data.password)))

\* prisma.user.create({ data }): the insert fails on the unique index of email
\* (NULL emails do not collide); value is the table after the call.
create(store, data, dbUp) ==
    IF ~dbUp THEN Throw("PrismaClientInitializationError")
    ELSE IF ~Nullish(data.email) /\ RowByEmail(store, data.email) # NullObj
         THEN Throw("PrismaClientKnownRequestError:P2002")
    ELSE Return(Append(store,
                 UserRow(cuid(store), data.name, data.email, data.password)))

\* ------------------------------------------------------------------ bcrypt

\* The cost factor passed to bcrypt.hash.
SaltRounds == 10

BcryptPrefix == "$2b$" \o ToString(SaltRounds) \o "$"

SaltLen == Len(CHOOSE salt \in Salts : TRUE)

\* The bytes of its data bcrypt reads; the rest is ignored.
BcryptMaxBytes == 72

\* The part of data that goes into the digest.
Truncate(data) ==
    IF Len(data) > BcryptMaxBytes THEN SubSeq(data, 1, BcryptMaxBytes) ELSE data

\* The digest of data under a salt: prefix, salt, then a one-way image of the
\* first 72 bytes of data.
HashWithSalt(data, salt) == BcryptPrefix \o salt \o "#" \o Truncate(data)

\* A hash taken of an empty string instead of the data.
bcryptHash_dropsData(data, salt) ==
    IF Nullish(data) THEN Throw("data and salt arguments required")
    ELSE Return(HashWithSalt("", salt))

\* bcrypt.hash(data, 10) with the salt the library drew.
bcryptHash(data, salt) ==
    IF Nullish(data) THEN Throw("data and salt arguments required")
    ELSE Return(HashWithSalt(data, salt))

\* A comparison of the plaintext with the stored field itself.
bcryptCompare_plaintext(data, encrypted) ==
    IF Nullish(data) \/ Nullish(encrypted)
    THEN Throw("data and hash arguments required")
    ELSE Return(data = encrypted)

\* bcrypt.compare(data, encrypted): re-hash data under the salt stored in
\* encrypted and compare the digests.
bcryptCompare(data, encrypted) ==
    IF Nullish(data) \/ Nullish(encrypted)
    THEN Throw("data and hash arguments required")
    ELSE LET n == Len(BcryptPrefix)
         IN  Return(/\ Len(encrypted) >= n + SaltLen
                    /\ SubSeq(encrypted, 1, n) = BcryptPrefix
                    /\ HashWithSalt(data, SubSeq(encrypted, n + 1, n + SaltLen))
                         = encrypted)

\* ------------------------------------------------- Credentials authorizer

\* What authorize hands back: the value returned, whether an exception left
\* the function, and the error it logged (console.error) if it caught one.
AuthResult(value, logged) == [value |-> value, threw |-> FALSE, logged |-> logged]

\* A catch block that logs and throws the error on.
catchAuthorize_rethrow(error) == [value |-> NullObj, threw |-> TRUE, logged |-> error]

\* catch (error) { console.error("Authorize error:", error); return null; }
catchAuthorize(error) == AuthResult(NullObj, error)

\* authorize(credentials) against the table, with the store up or down.
authorize(credentials, store, dbUp) ==
    IF credentials = NullObj THEN AuthResult(NullObj, Null)
    ELSE LET found == findUnique(store, credentials.email, dbUp)
         IN  IF found.threw THEN catchAuthorize(found.error)
             ELSE LET user == found.value
                  IN  IF user # NullObj /\ Truthy(user.password)
                      THEN LET isPasswordCorrect ==
                                   bcryptCompare(credentials.password, user.password)
                           IN  IF isPasswordCorrect.threw
                               THEN catchAuthorize(isPasswordCorrect.error)
                               ELSE IF isPasswordCorrect.value
                                    THEN AuthResult(user, Null)
                                    ELSE AuthResult(NullObj, Null)
                      ELSE AuthResult(NullObj, Null)

\* ------------------------------------------------------------- callbacks

\* The token the library builds from the signed-in user before callbacks.jwt.
DefaultToken(user) ==
    [name |-> user.name, email |-> user.email, sub |-> user.id, id |-> Null]

\* A jwt callback that assigns token.id = user?.id on every call.
jwt_overwrite(tok, user) ==
    [tok EXCEPT !.id = IF user # NullObj THEN user.id ELSE Null]

\* callbacks.jwt({ token, user })
jwt(tok, user) ==
    IF user # NullObj THEN [tok EXCEPT !.id = user.id] ELSE tok

\* The session the library builds from the token before callbacks.session.
DefaultSession(tok) ==
    [user |-> [name |-> tok.name, email |-> tok.email, id |-> Null]]

\* callbacks.session({ session, token })
sessionCallback(sess, tok) ==
    IF sess.user # NullObj THEN [sess EXCEPT !.user.id = tok.id] ELSE sess

\* ---------------------------------------------------------- server actions

AuthError(type) == [name |-> "AuthError", type |-> type]

OtherError(name) == [name |-> name, type |-> Null]

\* redirect() leaves signIn/signOut by throwing the framework's redirect signal.
NextRedirect(target) == [name |-> "NEXT_REDIRECT", type |-> Null, location |-> target]

\* A catch block that takes every error for an AuthError.
instanceofAuthError_any(error) == TRUE

instanceofAuthError(error) == error.name = "AuthError"

\* Failures inside the library that are not about the credentials: none, an
\* AuthError of another type, an error that is no AuthError.
LibFaults == {Null, "CallbackRouteError", "TypeError"}

\* signIn("credentials", { email, password, redirectTo: "/dashboard" }): the
\* library calls authorize, throws CredentialsSignin when it returns null, and
\* otherwise issues the token and redirects.
signIn(credentials, store, dbUp, libFault) ==
    IF libFault = "CallbackRouteError"
    THEN [thrown |-> AuthError("CallbackRouteError"), user |-> NullObj]
    ELSE IF libFault # Null
    THEN [thrown |-> OtherError(libFault), user |-> NullObj]
    ELSE LET res == authorize(credentials, store, dbUp)
         IN  IF res.threw
             THEN [thrown |-> AuthError("CallbackRouteError"), user |-> NullObj]
             ELSE IF res.value = NullObj
             THEN [thrown |-> AuthError("CredentialsSignin"), user |-> NullObj]
             ELSE [thrown |-> NextRedirect("/dashboard"), user |-> res.value]

\* What a server action hands its caller: a returned value or a thrown error
\* (NullObj when there is none), and the user the library signed in, if any.
ActionResult(returned, thrown, user) ==
    [returned |-> returned, thrown |-> thrown, user |-> user]

\* The try block of doCredentialLogin: reading data.email of a null data is a
\* TypeError; otherwise what signIn throws.
tryCredentialLogin(data, store, dbUp, libFault) ==
    IF data = NullObj
    THEN [thrown |-> OtherError("TypeError"), user |-> NullObj]
    ELSE signIn([email |-> data.email, password |-> data.password],
                store, dbUp, libFault)

\* doCredentialLogin(data): the try block and the catch block around it.
doCredentialLogin(data, store, dbUp, libFault) ==
    LET s == tryCredentialLogin(data, store, dbUp, libFault)
    IN  IF instanceofAuthError(s.thrown)
        THEN IF s.thrown.type = "CredentialsSignin"
             THEN ActionResult([error |-> "Invalid credentials."], NullObj, NullObj)
             ELSE ActionResult([error |-> "Something went wrong."], NullObj, NullObj)
        ELSE ActionResult(NullObj, s.thrown, s.user)

\* doSignOut(): signOut({ redirectTo: "/login" })
doSignOut == ActionResult(NullObj, NextRedirect("/login"), NullObj)

\* ------------------------------------------------------ pages and forms

\* The route of the sign-in page, app/(auth)/login/page.tsx: a route group in
\* parentheses is left out of the URL.
SignInPageRoute == "/login"

\* pages.signIn of the auth configuration.
pagesSignIn == "/signin"

\* onRegister(data) once fetch has answered: the toast shown and the path
\* pushed to the router (Null when it stays on the page).
onRegister(res) ==
    IF res.status >= 200 /\ res.status <= 299
    THEN [toast |-> "Register Successful", push |-> "/login"]
    ELSE [toast |-> IF Truthy(res.message) THEN res.message ELSE "Failed to register",
          push |-> Null]

\* --------------------------------------------------- registration endpoint

\* The response of POST /api/auth/register.
Response(success, message, status) ==
    [success |-> success, message |-> message, status |-> status]

NoResponse == [success |-> FALSE, message |-> Null, status |-> 0]

\* Request bodies: text that is no JSON, the JSON value null, or an object
\* whose email and password are strings, JSON null, or absent.
Bodies ==
    {[json |-> "malformed", name |-> Undefined, email |-> Undefined,
      password |-> Undefined],
     [json |-> "null", name |-> Undefined, email |-> Undefined,
      password |-> Undefined]}
    \cup [json : {"object"}, name : Names,
          email : Emails \cup {Null, Undefined},
          password : RegisteredPasswords \cup {Null, Undefined}]

\* await request.json(); const { name, email, password } = body
requestJson(body) ==
    IF body.json = "malformed" THEN Throw("SyntaxError")
    ELSE IF body.json = "null" THEN Throw("TypeError")
    ELSE Return([name |-> body.name, email |-> body.email, password |-> body.password])

\* One request in the handler: where it stands, what it read, what it answered.
\* responses counts the responses it produced; logged is the error it caught.
ReqState(pc, body, hashPassword, response, responses, logged) ==
    [pc |-> pc, body |-> body, hashPassword |-> hashPassword,
     response |-> response, responses |-> responses, logged |-> logged]

IdleReq == ReqState("idle", NullObj, Null, NoResponse, 0, Null)

\* A catch block that answers 400 with the error's name.
Caught_badRequest(rq, error) ==
    [rq EXCEPT !.pc = "done",
               !.response = Response(FALSE, error, 400),
               !.responses = @ + 1,
               !.logged = error]

\* catch (error) { console.error(error); return Response.json(..., 500) }
Caught(rq, error) ==
    [rq EXCEPT !.pc = "done",
               !.response = Response(FALSE, "Something went wrong", 500),
               !.responses = @ + 1,
               !.logged = error]

\* Lines 160-163: parse the body and hash the password.
postHash(rq, body, salt) ==
    LET parsed == requestJson(body)
    IN  IF parsed.threw THEN Caught([rq EXCEPT !.body = body], parsed.error)
        ELSE LET h == bcryptHash(parsed.value.password, salt)
             IN  IF h.threw THEN Caught([rq EXCEPT !.body = body], h.error)
                 ELSE [rq EXCEPT !.pc = "findFirst", !.body = body,
                                 !.hashPassword = h.value]

\* Lines 166-175: the existence check.
postFindFirst(rq, store, dbUp) ==
    LET user == findFirst(store, rq.body.email, dbUp)
    IN  IF user.threw THEN Caught(rq, user.error)
        ELSE IF user.value # NullObj
             THEN [rq EXCEPT !.pc = "done",
                             !.response = Response(FALSE, "Email already exists", 401),
                             !.responses = @ + 1]
             ELSE [rq EXCEPT !.pc = "create"]

\* A data object that stores the submitted password itself.
createData_plaintext(rq) ==
    [name |-> rq.body.name, email |-> rq.body.email, password |-> rq.body.password]

\* The data object of prisma.user.create.
createData(rq) ==
    [name |-> rq.body.name, email |-> rq.body.email, password |-> rq.hashPassword]

\* Lines 178-189: the insert and the success response; the request and the
\* table after the step.
postCreate(rq, store, dbUp) ==
    LET made == create(store, createData(rq), dbUp)
    IN  IF made.threw THEN [rq |-> Caught(rq, made.error), store |-> store]
        ELSE [rq |-> [rq EXCEPT !.pc = "done",
                                !.response = Response(TRUE, "User created successfully", 200),
                                !.responses = @ + 1],
              store |-> made.value]

\* ------------------------------------------------------- social sign-in

\* The authorization endpoint signIn(provider) sends the browser to.
AuthorizationUrl(provider) ==
    IF provider = "github" THEN "https://github.com/login/oauth/authorize"
    ELSE "https://accounts.google.com/o/oauth2/v2/auth"

\* doSocialLogin(provider): signIn(provider, { redirectTo: "/dashboard" })
\* writes no row and no session; it leaves by redirecting to the provider.
doSocialLogin(provider) ==
    ActionResult(NullObj, NextRedirect(AuthorizationUrl(provider)), NullObj)

\* One client's OAuth sign-in: the provider of the flow it started (started),
\* and, while the library's callback handler serves its return from the
\* provider, the store call the handler waits for (pc) with the provider, the
\* profile email, the id of the user the request's session is of (sessionUser)
\* and the id of the user the account is linked to (userId).
OAuthFlow(pc, started, provider, email, sessionUser, userId) ==
    [pc |-> pc, started |-> started, provider |-> provider, email |-> email,
     sessionUser |-> sessionUser, userId |-> userId]

IdleFlow == OAuthFlow("idle", Null, Null, Null, Null, Null)

\* adapter.getUser(token.sub): the row with the id.
getUser(store, id, dbUp) ==
    IF ~dbUp THEN Throw("PrismaClientInitializationError")
    ELSE IF \E i \in 1..Len(store) : store[i].id = id
         THEN Return(store[CHOOSE i \in 1..Len(store) : store[i].id = id])
    ELSE Return(NullObj)

\* adapter.getUserByAccount: the user the provider account is linked to.
getUserByAccount(store, accts, provider, providerAccountId, dbUp) ==
    IF ~dbUp THEN Throw("PrismaClientInitializationError")
    ELSE LET linked == {a \in accts : /\ a.provider = provider
                                      /\ a.providerAccountId = providerAccountId}
         IN  IF linked = {} THEN Return(NullObj)
             ELSE LET a == CHOOSE a \in linked : TRUE
                  IN  Return(store[CHOOSE i \in 1..Len(store) :
                                       store[i].id = a.userId])

\* adapter.getUserByEmail: prisma.user.findUnique({ where: { email } })
getUserByEmail(store, email, dbUp) == findUnique(store, email, dbUp)

\* adapter.createUser: prisma.user.create with the profile, which has no
\* password.
createUser(store, profile, dbUp) ==
    create(store, [name |-> profile.name, email |-> profile.email,
                   password |-> Undefined], dbUp)

\* adapter.linkAccount: prisma.account.create, unique on (provider,
\* providerAccountId); value is the accounts table after the call.
linkAccount(accts, account, dbUp) ==
    IF ~dbUp THEN Throw("PrismaClientInitializationError")
    ELSE IF \E a \in accts : /\ a.provider = account.provider
                             /\ a.providerAccountId = account.providerAccountId
         THEN Throw("PrismaClientKnownRequestError:P2002")
    ELSE Return(accts \cup {account})

\* ------------------------------------------------------------ state machine

\* One client's session read in flight: whether the handler is between
\* decoding the cookie and answering (pc), and the token it decoded.
SessionRequest(pc, tok) == [pc |-> pc, tok |-> tok]

NoRead == SessionRequest("idle", NullObj)

Init ==
    /\ users = <<>>
    /\ accounts = {}
    /\ reg = [r \in Reqs |-> IdleReq]
    /\ oauth = [c \in Clients |-> IdleFlow]
    /\ reading = [c \in Clients |-> NoRead]
    /\ token = [c \in Clients |-> NullObj]
    /\ session = [c \in Clients |-> NullObj]
    /\ signedInAs = [c \in Clients |-> Null]
    /\ last = [op |-> "init"]

\* Requests that may still insert a row.
InFlight == {q \in Reqs : reg[q].pc \in {"findFirst", "create"}}

\* OAuth callbacks that may still insert a row.
OAuthInFlight ==
    {c \in Clients :
        oauth[c].pc \in {"getUser", "getUserByAccount", "getUserByEmail",
                         "createUser"}}

\* Room in the table for one more insert beside those in flight.
Room == Len(users) + Cardinality(InFlight) + Cardinality(OAuthInFlight) < MaxUsers

\* A request with a body of B arrives at POST /api/auth/register and runs up
\* to the first store call.
RegHashOn(r, B) ==
    \E body \in B, salt \in Salts :
        /\ reg[r].pc = "idle"
        /\ \/ Room
           \/ postHash(IdleReq, body, salt).pc = "done"
           \/ findFirst(users, body.email, TRUE).value # NullObj
        /\ reg' = [reg EXCEPT ![r] = postHash(IdleReq, body, salt)]
        /\ last' = [op |-> "register", req |-> r, step |-> "hash", dbUp |-> TRUE]
        /\ UNCHANGED <<users, accounts, oauth, reading, token, session, signedInAs>>

RegHash(r) == RegHashOn(r, Bodies)

\* The request's existence check returns.
RegFindFirst(r) ==
    \E dbUp \in BOOLEAN :
        /\ reg[r].pc = "findFirst"
        /\ reg' = [reg EXCEPT ![r] = postFindFirst(reg[r], users, dbUp)]
        /\ last' = [op |-> "register", req |-> r, step |-> "findFirst", dbUp |-> dbUp]
        /\ UNCHANGED <<users, accounts, oauth, reading, token, session, signedInAs>>

\* The request's insert returns.
RegCreate(r) ==
    \E dbUp \in BOOLEAN :
        /\ reg[r].pc = "create"
        /\ LET out == postCreate(reg[r], users, dbUp)
           IN  /\ reg' = [reg EXCEPT ![r] = out.rq]
               /\ users' = out.store
        /\ last' = [op |-> "register", req |-> r, step |-> "create", dbUp |-> dbUp]
        /\ UNCHANGED <<accounts, oauth, reading, token, session, signedInAs>>

\* The response has been delivered; the next request may arrive.
RegClose(r) ==
    /\ reg[r].pc = "done"
    /\ reg' = [reg EXCEPT ![r] = IdleReq]
    /\ last' = [op |-> "register", req |-> r, step |-> "close", dbUp |-> TRUE]
    /\ UNCHANGED <<users, accounts, oauth, reading, token, session, signedInAs>>

\* The library calls authorize with the submitted credentials.
Credentials ==
    {NullObj} \cup [email : Emails \cup {Null, Undefined},
                     password : Passwords \cup {Null, Undefined}]

AuthorizeOn(C) ==
    \E credentials \in C, dbUp \in BOOLEAN :
        /\ last' = [op |-> "authorize", credentials |-> credentials, dbUp |-> dbUp,
                    result |-> authorize(credentials, users, dbUp)]
        /\ UNCHANGED <<users, accounts, reg, reading, oauth, token, session, signedInAs>>

Authorize == AuthorizeOn(Credentials)

\* A client submits the sign-in form with data drawn from D.
CredentialLoginOn(c, D) ==
    \E data \in D, dbUp \in BOOLEAN, libFault \in LibFaults :
        LET out == doCredentialLogin(data, users, dbUp, libFault)
        IN  /\ last' = [op |-> "login", client |-> c,
                        tried |-> tryCredentialLogin(data, users, dbUp, libFault).thrown,
                        result |-> out]
            /\ IF out.user # NullObj
               THEN /\ token' = [token EXCEPT ![c] = jwt(DefaultToken(out.user), out.user)]
                    /\ session' = [session EXCEPT ![c] = NullObj]
                    /\ signedInAs' = [signedInAs EXCEPT ![c] = out.user.id]
               ELSE UNCHANGED <<token, session, signedInAs>>
            /\ UNCHANGED <<users, accounts, reg, reading, oauth>>

CredentialLogin(c) == CredentialLoginOn(c, Credentials)

\* What a step of the OAuth callback handler records: the store call that
\* returned and the handler's answer, if it gave one (NullObj while it goes on).
SocialStep(c, step, dbUp, outcome) ==
    [op |-> "social", client |-> c, step |-> step, dbUp |-> dbUp,
     outcome |-> outcome]

\* A client, on a page of the application, calls doSocialLogin(provider) with
\* a provider of P: the browser is sent to the provider.
SocialLoginOn(c, P) ==
    \E provider \in P :
        /\ oauth[c].pc = "idle"
        /\ oauth' = [oauth EXCEPT ![c].started = provider]
        /\ last' = SocialStep(c, "signIn", TRUE, doSocialLogin(provider).thrown)
        /\ UNCHANGED <<users, accounts, reg, reading, token, session, signedInAs>>

SocialLogin(c) == SocialLoginOn(c, Providers)

\* The provider sends the browser back with the profile of an account whose
\* email is in E: the callback handler runs up to its first store call, which
\* is getUser when the request carries a session.
OAuthCallbackOn(c, E) ==
    \E email \in E :
        /\ oauth[c].pc = "idle"
        /\ oauth[c].started # Null
        /\ Room \/ RowByEmail(users, email) # NullObj
        /\ oauth' = [oauth EXCEPT ![c] =
                        IF token[c] # NullObj
                        THEN OAuthFlow("getUser", Null, oauth[c].started,
                                       email, token[c].sub, Null)
                        ELSE OAuthFlow("getUserByAccount", Null, oauth[c].started,
                                       email, Null, Null)]
        /\ last' = SocialStep(c, "callback", TRUE, NullObj)
        /\ UNCHANGED <<users, accounts, reg, reading, token, session, signedInAs>>

\* The handler is through without a sign-in: the browser is sent to the error
\* page and the client's cookie stays as it was.
OAuthFails(c, step, dbUp, type) ==
    /\ oauth' = [oauth EXCEPT ![c] = IdleFlow]
    /\ last' = SocialStep(c, step, dbUp, AuthError(type))
    /\ UNCHANGED <<token, session, signedInAs>>

\* The handler signs the user in: callbacks.jwt with the user, the session
\* cookie, the redirect to redirectTo.
OAuthSignsIn(c, step, dbUp, user) ==
    /\ oauth' = [oauth EXCEPT ![c] = IdleFlow]
    /\ last' = SocialStep(c, step, dbUp, NextRedirect("/dashboard"))
    /\ token' = [token EXCEPT ![c] = jwt(DefaultToken(user), user)]
    /\ session' = [session EXCEPT ![c] = NullObj]
    /\ signedInAs' = [signedInAs EXCEPT ![c] = user.id]

\* getUser returns: the user of the request's session; a session whose user
\* cannot be loaded is taken for none (the error is swallowed).
OAuthGetUser(c) ==
    \E dbUp \in BOOLEAN :
        /\ oauth[c].pc = "getUser"
        /\ LET found == getUser(users, oauth[c].sessionUser, dbUp)
           IN  oauth' = [oauth EXCEPT
                            ![c].pc = "getUserByAccount",
                            ![c].sessionUser =
                                IF found.threw \/ found.value = NullObj
                                THEN Null ELSE found.value.id]
        /\ last' = SocialStep(c, "getUser", dbUp, NullObj)
        /\ UNCHANGED <<users, accounts, reg, reading, token, session, signedInAs>>

\* getUserByAccount returns. A linked account signs its user in, unless the
\* request's session is of another user; an account no user has is linked to
\* the user of the session, if there is one.
OAuthGetUserByAccount(c) ==
    \E dbUp \in BOOLEAN :
        /\ oauth[c].pc = "getUserByAccount"
        /\ LET found == getUserByAccount(users, accounts, oauth[c].provider,
                                         oauth[c].email, dbUp)
               user == oauth[c].sessionUser
           IN  IF found.threw
               THEN OAuthFails(c, "getUserByAccount", dbUp, "AdapterError")
               ELSE IF found.value # NullObj
               THEN IF user # Null /\ found.value.id # user
                    THEN OAuthFails(c, "getUserByAccount", dbUp,
                                    "OAuthAccountNotLinked")
                    ELSE OAuthSignsIn(c, "getUserByAccount", dbUp, found.value)
               ELSE /\ oauth' = [oauth EXCEPT
                                    ![c].pc = IF user # Null THEN "linkAccount"
                                              ELSE "getUserByEmail",
                                    ![c].userId = user]
                    /\ last' = SocialStep(c, "getUserByAccount", dbUp, NullObj)
                    /\ UNCHANGED <<token, session, signedInAs>>
        /\ UNCHANGED <<users, accounts, reg, reading>>

\* getUserByEmail returns: an email another user has is refused.
OAuthGetUserByEmail(c) ==
    \E dbUp \in BOOLEAN :
        /\ oauth[c].pc = "getUserByEmail"
        /\ LET found == getUserByEmail(users, oauth[c].email, dbUp)
           IN  IF found.threw
               THEN OAuthFails(c, "getUserByEmail", dbUp, "AdapterError")
               ELSE IF found.value # NullObj
               THEN OAuthFails(c, "getUserByEmail", dbUp, "OAuthAccountNotLinked")
               ELSE /\ oauth' = [oauth EXCEPT ![c].pc = "createUser"]
                    /\ last' = SocialStep(c, "getUserByEmail", dbUp, NullObj)
                    /\ UNCHANGED <<token, session, signedInAs>>
        /\ UNCHANGED <<users, accounts, reg, reading>>

\* createUser returns: the new row, or the error of the insert.
OAuthCreateUser(c) ==
    \E dbUp \in BOOLEAN :
        /\ oauth[c].pc = "createUser"
        /\ LET made == createUser(users, [name |-> Null, email |-> oauth[c].email],
                                  dbUp)
           IN  IF made.threw
               THEN /\ OAuthFails(c, "createUser", dbUp, "AdapterError")
                    /\ UNCHANGED users
               ELSE /\ users' = made.value
                    /\ oauth' = [oauth EXCEPT ![c].pc = "linkAccount",
                                              ![c].userId =
                                                  made.value[Len(made.value)].id]
                    /\ last' = SocialStep(c, "createUser", dbUp, NullObj)
                    /\ UNCHANGED <<token, session, signedInAs>>
        /\ UNCHANGED <<accounts, reg, reading>>

\* linkAccount returns: the account row, and the sign-in of its user.
OAuthLinkAccount(c) ==
    \E dbUp \in BOOLEAN :
        /\ oauth[c].pc = "linkAccount"
        /\ LET linked == linkAccount(accounts,
                                     [provider |-> oauth[c].provider,
                                      providerAccountId |-> oauth[c].email,
                                      userId |-> oauth[c].userId], dbUp)
           IN  IF linked.threw
               THEN /\ OAuthFails(c, "linkAccount", dbUp, "AdapterError")
                    /\ UNCHANGED accounts
               ELSE /\ accounts' = linked.value
                    /\ OAuthSignsIn(c, "linkAccount", dbUp,
                                    users[CHOOSE i \in 1..Len(users) :
                                              users[i].id = oauth[c].userId])
        /\ UNCHANGED <<users, reg, reading>>

\* Social sign-in of client c with providers of P and profile emails of E.
SocialOn(c, P, E) ==
    \/ SocialLoginOn(c, P)
    \/ OAuthCallbackOn(c, E)
    \/ OAuthGetUser(c)
    \/ OAuthGetUserByAccount(c)
    \/ OAuthGetUserByEmail(c)
    \/ OAuthCreateUser(c)
    \/ OAuthLinkAccount(c)

Social(c) == SocialOn(c, Providers, Emails)

\* A sample of the social sign-ins: one provider, one profile.
SampleProviders == {"github"}

SampleProfiles == {"a@x.io"}

SocialSample(c) == SocialOn(c, SampleProviders, SampleProfiles)

\* A session read (auth(), useSession, update(), GET /api/auth/session)
\* arrives: the library decodes the token of the request's cookie and goes on
\* to await the callbacks.
SessionReadBegin(c) ==
    /\ reading[c].pc = "idle"
    /\ reading' = [reading EXCEPT ![c] = SessionRequest("callbacks", token[c])]
    /\ last' = [op |-> "session", client |-> c, step |-> "begin"]
    /\ UNCHANGED <<users, accounts, reg, oauth, token, session, signedInAs>>

\* The awaited callbacks.jwt (without a user) and callbacks.session have
\* returned: the read answers with the session and re-issues the token it
\* decoded, whatever the client's cookie has become in between. A request
\* without a cookie is answered null and sets no cookie.
SessionReadEnd(c) ==
    /\ reading[c].pc = "callbacks"
    /\ IF reading[c].tok = NullObj
       THEN /\ session' = [session EXCEPT ![c] = NullObj]
            /\ UNCHANGED token
       ELSE LET tok == jwt(reading[c].tok, NullObj)
            IN  /\ token' = [token EXCEPT ![c] = tok]
                /\ session' = [session EXCEPT ![c] =
                                  sessionCallback(DefaultSession(tok), tok)]
    /\ reading' = [reading EXCEPT ![c] = NoRead]
    /\ last' = [op |-> "session", client |-> c, step |-> "end"]
    /\ UNCHANGED <<users, accounts, reg, oauth, signedInAs>>

SessionRead(c) == SessionReadBegin(c) \/ SessionReadEnd(c)

\* A client calls doSignOut, with or without a session: the session cookie is
\* cleared.
SignOut(c) ==
    /\ token' = [token EXCEPT ![c] = NullObj]
    /\ session' = [session EXCEPT ![c] = NullObj]
    /\ signedInAs' = [signedInAs EXCEPT ![c] = Null]
    /\ last' = [op |-> "signout", client |-> c, result |-> doSignOut]
    /\ UNCHANGED <<users, accounts, reg, reading, oauth>>

\* A client requests a path of P; req.auth is the session of its token, if any.
GateRequestOn(c, P) ==
    \E pathname \in P :
        /\ last' = [op |-> "gate", client |-> c, pathname |-> pathname,
                    isLoggedIn |-> token[c] # NullObj,
                    gate |-> EdgeGate(pathname, token[c] # NullObj),
                    hops |-> 0]
        /\ UNCHANGED <<users, accounts, reg, reading, oauth, token, session, signedInAs>>

\* The client follows the redirect it was just answered with: it requests the
\* Location with the same cookie.
GateFollow(c) ==
    /\ last.op = "gate"
    /\ last.client = c
    /\ last.gate.response.action = "redirect"
    /\ last.hops < MaxHops
    /\ LET pathname == last.gate.response.location
       IN  last' = [op |-> "gate", client |-> c, pathname |-> pathname,
                    isLoggedIn |-> token[c] # NullObj,
                    gate |-> EdgeGate(pathname, token[c] # NullObj),
                    hops |-> last.hops + 1]
    /\ UNCHANGED <<users, accounts, reg, reading, oauth, token, session, signedInAs>>

GateRequest(c) == GateRequestOn(c, Paths)

\* The registration endpoint serving the request slots R with bodies of B.
RegisterOn(R, B) ==
    \/ \E r \in R : RegHashOn(r, B)
    \/ \E r \in R : RegFindFirst(r)
    \/ \E r \in R : RegCreate(r)
    \/ \E r \in R : RegClose(r)

Register(R) == RegisterOn(R, Bodies)

\* A sample of the request bodies: objects with an email and a password.
SampleBodies ==
    [json : {"object"}, name : Names, email : Emails,
     password : RegisteredPasswords]

\* The bodies of the sample that carry one password.
OnePasswordBodies == {body \in SampleBodies : body.password = "pw1"}

Next ==
    \/ Register(Reqs)
    \/ Authorize
    \/ \E c \in Clients : CredentialLogin(c)
    \/ \E c \in Clients : Social(c)
    \/ \E c \in Clients : SessionRead(c)
    \/ \E c \in Clients : SignOut(c)
    \/ \E c \in Clients : GateRequest(c)
    \/ \E c \in Clients : GateFollow(c)

\* The whole program.
Spec == Init /\ [][Next]_vars

\* The Edge Gate with the ways a client's session comes and goes that need no
\* registered password: social sign-ins with one provider, session reads,
\* sign-out.
NextGate ==
    \/ \E c \in Clients : GateRequest(c)
    \/ \E c \in Clients : GateFollow(c)
    \/ \E c \in Clients : SocialOn(c, SampleProviders, Emails)
    \/ \E c \in Clients : SessionRead(c)
    \/ \E c \in Clients : SignOut(c)

SpecGate == Init /\ [][NextGate]_vars

\* The Credentials authorizer over every table that registration (one request
\* at a time) and a sample of the social sign-ins can build.
NextAuth ==
    \/ RegisterOn({"r1"}, SampleBodies)
    \/ \E c \in Clients : SocialSample(c)
    \/ Authorize

SpecAuth == Init /\ [][NextAuth]_vars

\* Credentials sign-in, session reads and sign-out over the users a sample of
\* the registrations makes.
NextLogin ==
    \/ RegisterOn({"r1"}, SampleBodies)
    \/ \E c \in Clients : CredentialLogin(c)
    \/ \E c \in Clients : SessionRead(c)
    \/ \E c \in Clients : SignOut(c)

SpecLogin == Init /\ [][NextLogin]_vars

\* The registration endpoint with requests in flight side by side.
NextReg == Register(Reqs)

SpecReg == Init /\ [][NextReg]_vars

\* Every store call of a request in flight returns or throws.
FairReg ==
    \A r \in Reqs : WF_vars(RegFindFirst(r)) /\ WF_vars(RegCreate(r))

FairSpecReg == SpecReg /\ FairReg

\* Every handler side by side, one registration request at a time, with the
\* handlers fed a sample of their inputs.
SampleCredentials == {NullObj} \cup [email : Emails, password : {"pw1"}]

SamplePaths == {"/dashboard", "/signin"}

NextAll ==
    \/ RegisterOn({"r1"}, OnePasswordBodies)
    \/ AuthorizeOn(SampleCredentials)
    \/ \E c \in Clients : CredentialLoginOn(c, SampleCredentials)
    \/ \E c \in Clients : SocialSample(c)
    \/ \E c \in Clients : SessionRead(c)
    \/ \E c \in Clients : SignOut(c)
    \/ \E c \in Clients : GateRequestOn(c, SamplePaths)

SpecAll == Init /\ [][NextAll]_vars

\* ================================================================ claims

\* ---------------------------------------------------------------- Edge Gate

\* C1 (as stated): every request whose path starts with /dashboard and that
\* carries no valid session is answered with a redirect to /signin; none
\* passes through.
C1_UnauthenticatedProtectedRedirects ==
    (/\ last.op = "gate"
     /\ StartsWith(last.pathname, "/dashboard")
     /\ ~last.isLoggedIn)
    => last.gate.response = Redirect("/signin")

\* C2: a request to /signin or /signup with a valid session is redirected to
\* /dashboard, and the same request without a session passes through.
C2_PublicRoute ==
    (last.op = "gate" /\ last.pathname \in {"/signin", "/signup"})
    => /\ last.isLoggedIn => last.gate.response = Redirect("/dashboard")
       /\ ~last.isLoggedIn => last.gate.response = PassThrough

C2_Witness ==
    /\ last.op = "gate"
    /\ last.pathname = "/signin"
    /\ last.isLoggedIn
    /\ last.gate.invoked
    /\ last.gate.response.action = "redirect"

\* C3: a request to any path under /api/auth passes through, with or without
\* a valid session, whatever the public and protected checks would say.
C3_AuthApiPassesThrough ==
    (last.op = "gate" /\ StartsWith(last.pathname, "/api/auth"))
    => last.gate.response = PassThrough

C3_Witness ==
    /\ last.op = "gate"
    /\ last.pathname = "/api/auth/session"
    /\ ~last.isLoggedIn
    /\ last.gate.invoked
    /\ last.gate.response = PassThrough

\* ------------------------------------------------- Credentials authorizer

\* The rows of the table whose email is e.
RowsWithEmail(e) == {i \in 1..Len(users) : users[i].email = e}

\* The stored field h is a hash of the plaintext p.
IsHashOf(h, p) == ~Nullish(p) /\ \E salt \in Salts : h = HashWithSalt(p, salt)

\* C4: with the store answering, authorize returns the row whose email is the
\* submitted one when that row has a stored hash and the submitted password
\* matches it; it returns null when the password does not match the stored
\* hash; and it never returns a row with another email.
C4_AuthorizeReturnsMatchingUser ==
    (last.op = "authorize" /\ last.credentials # NullObj)
    => LET cr == last.credentials
           res == last.result
       IN  /\ \A i \in RowsWithEmail(cr.email) :
                 /\ (/\ last.dbUp
                     /\ ~Nullish(cr.email)
                     /\ users[i].password # Null
                     /\ IsHashOf(users[i].password, cr.password))
                    => res.value = users[i]
                 /\ (/\ users[i].password # Null
                     /\ ~IsHashOf(users[i].password, cr.password))
                    => res.value = NullObj
           /\ res.value # NullObj
              => /\ res.value.email = cr.email
                 /\ \E i \in 1..Len(users) : users[i] = res.value

C4_Witness ==
    /\ last.op = "authorize"
    /\ last.result.value # NullObj
    /\ Len(users) = 2
    /\ \E i \in 1..Len(users) :
          /\ users[i] # last.result.value
          /\ users[i].password # Null

\* C5: authorize returns null, and no exception leaves it, when credentials
\* are absent, when no row has the submitted email, when the row has no stored
\* hash, and when the lookup or the comparison throws.
C5_AuthorizeFailsClosed ==
    last.op = "authorize"
    => LET cr == last.credentials
           res == last.result
       IN  /\ ~res.threw
           /\ cr = NullObj => res.value = NullObj
           /\ (cr # NullObj /\
               (\/ ~last.dbUp
                \/ Nullish(cr.email)
                \/ Nullish(cr.password)
                \/ RowsWithEmail(cr.email) = {}
                \/ \E i \in RowsWithEmail(cr.email) : users[i].password = Null))
              => res.value = NullObj

C5_Witness ==
    /\ last.op = "authorize"
    /\ last.credentials # NullObj
    /\ last.dbUp
    /\ last.credentials.password = Null
    /\ \E i \in RowsWithEmail(last.credentials.email) : users[i].password # Null
    /\ last.result.logged = "data and hash arguments required"
    /\ last.result.value = NullObj

\* --------------------------------------------------- registration endpoint

GenericFailure == Response(FALSE, "Something went wrong", 500)

\* C6: a registration whose email no row has, with the store answering, goes
\* from the existence check on to the insert and from the insert to status 200
\* with success true; and every status 200 comes with exactly one new row, of
\* the request's email (none when the request has none), whose password field
\* is a hash of the submitted password and not the submitted password.
C6_RegistrationWithUnusedEmail ==
    [][\A r \in Reqs :
          LET body == reg[r].body
              unused == body.email \in Emails /\ RowsWithEmail(body.email) = {}
          IN  /\ (/\ reg[r].pc = "findFirst" /\ reg'[r].pc # "findFirst"
                  /\ last'.dbUp /\ unused)
                 => reg'[r].pc = "create" /\ users' = users
              /\ (/\ reg[r].pc = "create" /\ reg'[r].pc # "create"
                  /\ last'.dbUp /\ unused)
                 => reg'[r].response = Response(TRUE, "User created successfully", 200)
              /\ (reg[r].pc # "done" /\ reg'[r].pc = "done"
                  /\ reg'[r].response.status = 200)
                 => /\ reg'[r].response.success
                    /\ Len(users') = Len(users) + 1
                    /\ SubSeq(users', 1, Len(users)) = users
                    /\ users'[Len(users')].email = Column(body.email)
                    /\ IsHashOf(users'[Len(users')].password, body.password)
                    /\ users'[Len(users')].password # body.password
      ]_vars

C6_Witness ==
    \E r \in Reqs :
        /\ reg[r].pc = "done"
        /\ reg[r].response.status = 200
        /\ reg[r].body.email \in Emails
        /\ Len(users) = 2
        /\ users[2].email = reg[r].body.email
        /\ users[2].password = reg[r].hashPassword

\* C7: a registration whose existence check, with the store answering, meets
\* a row that has its email is answered 401 "Email already exists"; a 401
\* inserts no row and leaves every row as it was.
C7_DuplicateEmailRejected ==
    [][\A r \in Reqs :
          LET body == reg[r].body
          IN  /\ (/\ reg[r].pc = "findFirst" /\ reg'[r].pc # "findFirst"
                  /\ last'.dbUp
                  /\ body.email \in Emails /\ RowsWithEmail(body.email) # {})
                 => /\ reg'[r].pc = "done"
                    /\ reg'[r].response = Response(FALSE, "Email already exists", 401)
                    /\ users' = users
              /\ (reg[r].pc # "done" /\ reg'[r].pc = "done"
                  /\ reg'[r].response.status = 401)
                 => users' = users
      ]_vars

C7_Witness ==
    \E r \in Reqs :
        /\ reg[r].pc = "done"
        /\ reg[r].response = Response(FALSE, "Email already exists", 401)
        /\ reg[r].body.email \in Emails
        /\ \E i \in RowsWithEmail(reg[r].body.email) :
              users[i].password # reg[r].hashPassword

\* An exception is raised in the step that takes request r from rq to rq2:
\* parsing or hashing on arrival, the lookup with the store down, the insert
\* with the store down or against the unique index.
Raises(rq, rq2, dbUp) ==
    \/ /\ rq.pc = "idle" /\ rq2.pc # "idle"
       /\ rq2.body.json # "object" \/ Nullish(rq2.body.password)
    \/ rq.pc = "findFirst" /\ rq2.pc # "findFirst" /\ ~dbUp
    \/ /\ rq.pc = "create" /\ rq2.pc # "create"
       /\ ~dbUp \/ (~Nullish(rq.body.email) /\ RowsWithEmail(rq.body.email) # {})

\* C10: a request that is answered has exactly one response and its status is
\* 200, 401 or 500; a step in which an exception is raised answers 500 with
\* success false and the generic message and leaves the table as it was; and
\* every request that reached a store call is answered.
C10_OneResponsePerRequest ==
    /\ [][\A r \in Reqs :
             /\ reg'[r].pc = "done"
                => /\ reg'[r].responses = 1
                   /\ reg'[r].response.status \in {200, 401, 500}
             /\ reg'[r].pc # "done"
                => reg'[r].responses = 0 /\ reg'[r].response = NoResponse
             /\ (Raises(reg[r], reg'[r], last'.dbUp)
                 \/ (reg[r].logged = Null /\ reg'[r].logged # Null))
                => /\ reg'[r].pc = "done"
                   /\ reg'[r].response = GenericFailure
                   /\ reg'[r].logged # Null
                   /\ users' = users
         ]_vars
    /\ \A r \in Reqs :
          (reg[r].pc \in {"findFirst", "create"}) ~> (reg[r].pc = "done")

C10_Witness ==
    \E r \in Reqs :
        /\ reg[r].pc = "done"
        /\ reg[r].response = GenericFailure
        /\ reg[r].logged = "PrismaClientKnownRequestError:P2002"
        /\ Cardinality(RowsWithEmail(reg[r].body.email)) = 1

\* ------------------------------------------------- callbacks and sign-in

\* C8 (as stated): after a sign-in the token the client holds carries the id
\* of the user who signed in, and every session the client is answered after
\* that sign-in carries that id in session.user.id.
C8_SessionCarriesSignedInUser ==
    \A c \in Clients :
        /\ token[c] # NullObj
           => /\ signedInAs[c] # Null
              /\ token[c].id = signedInAs[c]
        /\ session[c] # NullObj
           => session[c].user.id = signedInAs[c]

\* The token carries in its id the user it was issued to: a row of the table
\* with the token's email.
IssuedTo(tok) ==
    /\ tok.id = tok.sub
    /\ \E i \in 1..Len(users) :
          /\ users[i].id = tok.id
          /\ users[i].email = tok.email

\* C8 (amended): every token, held by a client or decoded by a read in flight,
\* carries in its id the id of the user whose sign-in issued it; a session
\* read re-issues the token it decoded with that id unchanged and answers
\* with a session that carries that id in session.user.id. The id is that of
\* the token's sign-in: a read that overlaps a sign-out or another sign-in
\* re-issues the earlier token.
C8_SessionCarriesUserId ==
    /\ [](\A c \in Clients :
            /\ token[c] # NullObj => IssuedTo(token[c])
            /\ reading[c].tok # NullObj => IssuedTo(reading[c].tok)
            /\ session[c] # NullObj
               => \E i \in 1..Len(users) :
                     /\ users[i].id = session[c].user.id
                     /\ users[i].email = session[c].user.email)
    /\ [][\A c \in Clients :
             (/\ reading[c].pc = "callbacks"
              /\ reading[c].tok # NullObj
              /\ reading'[c].pc = "idle")
             => /\ token'[c] # NullObj
                /\ token'[c].id = reading[c].tok.id
                /\ token'[c].sub = reading[c].tok.sub
                /\ session'[c] # NullObj
                /\ session'[c].user.id = reading[c].tok.id
         ]_vars

C8_Witness ==
    \E c \in Clients :
        /\ last.op = "session"
        /\ last.step = "end"
        /\ session[c] # NullObj
        /\ session[c].user.id = "u2"
        /\ token[c].id = "u2"
        /\ signedInAs[c] = "u1"
        /\ Len(users) = 2

\* C9: doCredentialLogin returns {error: "Invalid credentials."} for an
\* AuthError of type CredentialsSignin, {error: "Something went wrong."} for
\* any other AuthError, and throws on every error that is not an AuthError.
C9_LoginErrorMapping ==
    last.op = "login"
    => LET e == last.tried
           res == last.result
       IN  /\ (e.name = "AuthError" /\ e.type = "CredentialsSignin")
              => /\ res.returned = [error |-> "Invalid credentials."]
                 /\ res.thrown = NullObj
           /\ (e.name = "AuthError" /\ e.type # "CredentialsSignin")
              => /\ res.returned = [error |-> "Something went wrong."]
                 /\ res.thrown = NullObj
           /\ e.name # "AuthError"
              => /\ res.thrown = e
                 /\ res.returned = NullObj

C9_Witness ==
    /\ last.op = "login"
    /\ last.tried = AuthError("CredentialsSignin")
    /\ last.result.returned = [error |-> "Invalid credentials."]
    /\ last.result.thrown = NullObj
    /\ \E i \in 1..Len(users) : users[i].password # Null

\* ------------------------------------------------ concurrent registration

\* Request r has been answered with the given status for email e.
Answered(r, e, status) ==
    /\ reg[r].pc = "done"
    /\ reg[r].body.email = e
    /\ reg[r].response.status = status

\* C11: with registration requests for one email in flight side by side, the
\* table never holds two rows with that email; a 200 for an email is given
\* only by the insert of its first row, so no two requests are answered 200
\* for it; and a request whose insert meets a row that appeared after its
\* existence check is answered the generic 500, not the 401.
C11_ConcurrentRegistration ==
    /\ [](\A e \in Emails :
            /\ Cardinality(RowsWithEmail(e)) <= 1
            /\ \A r1, r2 \in Reqs :
                  (Answered(r1, e, 200) /\ Answered(r2, e, 200)) => r1 = r2)
    /\ [][\A r \in Reqs :
             LET e == reg[r].body.email
             IN  /\ (/\ reg[r].pc # "done" /\ reg'[r].pc = "done"
                     /\ reg'[r].response.status = 200
                     /\ e \in Emails)
                    => RowsWithEmail(e) = {}
                 /\ (/\ reg[r].pc = "create" /\ reg'[r].pc # "create"
                     /\ e \in Emails
                     /\ RowsWithEmail(e) # {})
                    => /\ reg'[r].response = GenericFailure
                       /\ reg'[r].response.status # 401
                       /\ users' = users
         ]_vars

C11_Witness ==
    \E r1, r2 \in Reqs, e \in Emails :
        /\ r1 # r2
        /\ Answered(r1, e, 200)
        /\ Answered(r2, e, 500)
        /\ reg[r2].logged = "PrismaClientKnownRequestError:P2002"
        /\ reg[r2].hashPassword # reg[r1].hashPassword
        /\ Cardinality(RowsWithEmail(e)) = 1

\* ------------------------------------------------------------ the table

\* C12: no step deletes or changes a row of the users table; the table grows
\* by one row at a time, and only in the insert of the registration endpoint
\* or in a social sign-in; authorize, credentials sign-in, session reads,
\* sign-out and the Edge Gate leave it as it was.
C12_UsersOnlyGrow ==
    [][/\ Len(users') >= Len(users)
       /\ Len(users') <= Len(users) + 1
       /\ SubSeq(users', 1, Len(users)) = users
       /\ users' # users
          => \/ last'.op = "register" /\ last'.step = "create"
             \/ last'.op = "social" /\ last'.step = "createUser"
       /\ (last' # last /\ last'.op \in {"authorize", "login", "session", "signout", "gate"})
          => users' = users
      ]_vars

C12_Witness ==
    /\ last.op = "signout"
    /\ Len(users) = 2
    /\ \E i, j \in 1..Len(users) :
          /\ users[i].password = Null
          /\ users[j].password # Null
    /\ reg["r1"].pc = "done"
    /\ reg["r1"].response.status = 200

\* ---------------------------------------------------------- redirect loops

\* C13: the gate redirects an unauthenticated request only to /signin and an
\* authenticated one only to /dashboard, and the request for the target of a
\* redirect, made with the same session state, passes through: no request is
\* redirected twice in a row.
C13_NoRedirectLoop ==
    last.op = "gate"
    => /\ last.hops <= 1
       /\ last.hops = 1 => last.gate.response = PassThrough
       /\ last.gate.response.action = "redirect"
          => last.gate.response.location =
                IF last.isLoggedIn THEN "/dashboard" ELSE "/signin"

C13_Witness ==
    /\ last.op = "gate"
    /\ last.hops = 1
    /\ last.pathname = "/dashboard"
    /\ last.isLoggedIn
    /\ last.gate.invoked
    /\ last.gate.response = PassThrough

\* ------------------------------------------------- register, then sign in

\* The hash collaborator's compare accepts exactly the hashed plaintext, for
\* the plaintext p and the submitted q: it accepts q against a hash of p only
\* when q is p.
AcceptsExactly(p, q) ==
    \A salt \in Salts :
        LET accepted == bcryptCompare(q, HashWithSalt(p, salt))
        IN  accepted.threw \/ (accepted.value <=> q = p)

\* C14: once a registration with email e and password p has been answered
\* 200, authorize (with the store answering) returns for (e, p) the row that
\* registration inserted, and returns null for (e, q) with any other q for
\* which the hash collaborator's compare accepts exactly the hashed plaintext.
C14_RegisterThenAuthorize ==
    \A r \in Reqs :
        (/\ reg[r].pc = "done"
         /\ reg[r].response.status = 200
         /\ reg[r].body.email \in Emails
         /\ last.op = "authorize"
         /\ last.dbUp
         /\ last.credentials # NullObj
         /\ last.credentials.email = reg[r].body.email)
        => IF last.credentials.password = reg[r].body.password
           THEN /\ last.result.value # NullObj
                /\ last.result.value.email = reg[r].body.email
                /\ last.result.value.password = reg[r].hashPassword
                /\ \E i \in 1..Len(users) : users[i] = last.result.value
           ELSE AcceptsExactly(reg[r].body.password, last.credentials.password)
                => last.result.value = NullObj

C14_Witness ==
    \E r \in Reqs :
        /\ reg[r].pc = "done"
        /\ reg[r].response.status = 200
        /\ last.op = "authorize"
        /\ last.credentials # NullObj
        /\ last.credentials.email = reg[r].body.email
        /\ last.credentials.password = reg[r].body.password
        /\ last.result.value # NullObj
        /\ last.result.value.id = "u2"

\* ------------------------------------------------------- the sign-in path

\* C15 (as stated): the path the gate sends unauthenticated users to, the
\* path doSignOut redirects to, the path the registration form pushes after a
\* success and the route of the sign-in page are one path, and the gate takes
\* that path for a public route: a signed-in client that requests the sign-in
\* page is redirected to /dashboard.
C15_SignInPathConsistent ==
    LET gatePath == middleware("/dashboard", FALSE).location
    IN  /\ last.op = "signout"
           => /\ last.result.thrown.location = gatePath
              /\ onRegister(Response(TRUE, "User created successfully", 200)).push
                    = gatePath
              /\ SignInPageRoute = gatePath
              /\ pagesSignIn = gatePath
        /\ (/\ last.op = "gate"
            /\ last.pathname = SignInPageRoute
            /\ last.isLoggedIn)
           => /\ isPublicRoute(last.pathname)
              /\ last.gate.response = Redirect("/dashboard")

====
